---- MODULE Spec2Model ----
(***************************************************************************)
(* Model of the commute-catchment request pipeline:                        *)
(*   - the page's debounced, abortable fetch effect (src/app/page.tsx)     *)
(*   - the /api/isochrone route with its in-memory TTL cache               *)
(*     (src/app/api/isochrone/route.ts)                                    *)
(*                                                                         *)
(* Units.  Times are milliseconds.  Latitudes and longitudes are integers  *)
(* in units of 1e-7 degree.  Minutes are integers in units of 1/8 minute   *)
(* (every such value and its product with 60 is an exact binary float, so  *)
(* Math.round sees the same number as the model).                          *)
(***************************************************************************)
EXTENDS Integers, Sequences, FiniteSets, TLC

VARIABLES
    destination,   \* page.tsx:55   NoDestination = null, else a name and a coordinate
    arriveBy,      \* page.tsx:57   "HH:MM", as the two numbers toArriveByISO splits it into
    minutes,       \* page.tsx:58   1/8 minute
    mode,          \* page.tsx:59
    isochrone,     \* page.tsx:63   NoData = null, else the parsed response body
    loadingIso,    \* page.tsx:64
    tRef,          \* page.tsx:96   0 = null, else the id of the last timer set
    abortRef,      \* page.tsx:95   0 = null, else the index in calls of the last controller
    timers,        \* pending setTimeout callbacks, each with the values its closure captured
    renders,       \* number of renders with changed dependencies so far; also names the timers
    calls,         \* every POST to /api/isochrone, with the handler's position
    rejections,    \* indices of calls whose rejection left the timer callback unhandled
    publishedBy,   \* index of the call whose body is the current isochrone (0 = none)
    cache,         \* route.ts:11
    creds,         \* route.ts:32-33  both env vars present
    clock,         \* Date.now()
    communities,   \* page.tsx:66   the candidate areas, NoCollection = null
    within,        \* page.tsx:67   the published match list
    matchPending,  \* the match effect has still to run for the current dependencies
    probe,         \* the candidates the last match run took the bbox / the centroid of
    matchError,    \* the last match run threw instead of publishing a list
    fitted,        \* Map.tsx:163  the bounds of the last map.fitBounds, NoBox = none yet
    mapPending     \* the map's catchment effect has still to run for the current catchment

vars == <<destination, arriveBy, minutes, mode, isochrone, loadingIso, tRef,
          abortRef, timers, renders, calls, rejections, publishedBy, cache,
          creds, clock, communities, within, matchPending, probe, matchError,
          fitted, mapPending>>

matchVars == <<communities, within, matchPending, probe, matchError>>

mapVars == <<fitted, mapPending>>

clientVars == <<destination, arriveBy, minutes, mode, isochrone, loadingIso,
                tRef, abortRef, timers, renders, rejections, publishedBy>>

----------------------------------------------------------------------------
(* Program constants *)

DEBOUNCE_MS == 350

TTL_MS == 10 * 60 * 1000

MIN_TRAVEL_S == 60

MAX_TRAVEL_S == 10800

(* Bounds of the model *)

MaxChanges == 2

MaxPosts == 2

MaxTicks == 2

----------------------------------------------------------------------------
(* JavaScript values as they arrive in a request body *)

Num(n) == [t |-> "number", n |-> n, s |-> ""]

Str(str) == [t |-> "string", n |-> 0, s |-> str]

NaN == [t |-> "nan", n |-> 0, s |-> ""]

NumberIsFinite(v) == v.t = "number"

TypeofString(v) == v.t = "string"

(* Math.floor in the place of Math.round *)
MathFloor2(x2) == x2 \div 2

(* Math.round: the nearest integer, ties towards +Infinity.  x2 is twice the number. *)
MathRound2(x2) == (x2 + 1) \div 2

Max(a, b) == IF a >= b THEN a ELSE b

Min(a, b) == IF a <= b THEN a ELSE b

(* minutes * 60, doubled: m is in 1/8 minute, so m * 7.5 seconds *)
SecondsTimes2(m) == 15 * m

travelTimeSeconds(m) ==
    Max(MIN_TRAVEL_S, Min(MathRound2(SecondsTimes2(m)), MAX_TRAVEL_S))

Pad(str, width) ==
    IF Len(str) >= width THEN str
    ELSE IF width - Len(str) = 1 THEN "0" \o str
    ELSE IF width - Len(str) = 2 THEN "00" \o str
    ELSE IF width - Len(str) = 3 THEN "000" \o str
    ELSE "0000" \o str

(* The coordinate printed in full, without rounding *)
toFixedExact(n) == ToString(n)

(* 2^n mod 3125 for n up to 72, in three factors that each fit *)
PowMod(n) ==
    LET n1 == Min(n, 24)
        n2 == Min(n - n1, 24)
        n3 == n - n1 - n2
    IN  ((((2^n1 % 3125) * (2^n2 % 3125)) % 3125) * (2^n3 % 3125)) % 3125

(* The binary exponent of a * 1e-7 for 50 <= a < 2^31: the e with            *)
(* 2^e <= a * 1e-7 < 2^(e+1)                                                  *)
Exponent(a) ==
    CHOOSE e \in -18..7 :
        IF e >= 0
        THEN a \div 2^e >= 10000000 /\ a \div 2^(e + 1) < 10000000
        ELSE /\ a >= (10000000 + 2^(-e) - 1) \div 2^(-e)
             /\ a < (10000000 + 2^(-e - 1) - 1) \div 2^(-e - 1)

(* Whether the double nearest to a * 1e-7, for an a that ends in 50 and so   *)
(* lies halfway between two fifth decimals, prints as the upper one.  The    *)
(* value is (a / 50) / (2^6 * 3125); its double keeps 53 bits, so what is    *)
(* cut off is the fraction r / 3125 of the last bit with                     *)
(* r = (a / 50) * 2^(46 - e) mod 3125: the double lies below the decimal     *)
(* when that is under a half, above it when it is over a half, and on it     *)
(* when r = 0, where toFixed takes the larger neighbour                      *)
tieUp(a) ==
    LET r == (((a \div 50) % 3125) * PowMod(46 - Exponent(a))) % 3125
    IN  r = 0 \/ 2 * r > 3125

(* Number.prototype.toFixed(5) of the double nearest to n * 1e-7: the sign,  *)
(* then the magnitude rounded to the nearest fifth decimal; a negative       *)
(* number keeps its sign even when it rounds to zero                         *)
toFixed5(n) ==
    LET a == IF n < 0 THEN -n ELSE n
        up == (a % 100 > 50) \/ (a % 100 = 50 /\ tieUp(a))
        r == (a \div 100) + (IF up THEN 1 ELSE 0)
        sign == IF n < 0 THEN "-" ELSE ""
    IN  sign \o ToString(r \div 100000) \o "." \o Pad(ToString(r % 100000), 5)

(* String(m / 8) *)
Eighths == <<"", ".125", ".25", ".375", ".5", ".625", ".75", ".875">>

minutesToString(m) ==
    LET a == IF m < 0 THEN -m ELSE m
    IN  (IF m < 0 THEN "-" ELSE "") \o ToString(a \div 8) \o Eighths[(a % 8) + 1]

cacheKey(body) ==
    toFixed5(body.lat.n) \o "," \o toFixed5(body.lng.n) \o "|" \o body.arriveByISO.s
        \o "|" \o minutesToString(body.minutes.n) \o "|" \o body.mode.s

valid(body) ==
    /\ NumberIsFinite(body.lat)
    /\ NumberIsFinite(body.lng)
    /\ TypeofString(body.arriveByISO)
    /\ NumberIsFinite(body.minutes)
    /\ TypeofString(body.mode)

NoPayload == [lat |-> 0, lng |-> 0, type |-> "", arrival_time_period |-> "", travel_time |-> 0]

payload(body) ==
    [lat |-> body.lat.n, lng |-> body.lng.n, type |-> body.mode.s,
     arrival_time_period |-> "weekday_morning",
     travel_time |-> travelTimeSeconds(body.minutes.n)]

(* Response bodies of the route; data is what resp.json() gives the page *)
(* features is the body's features property: the fragments of the catchment *)
(* A geometry that is null or missing *)
NoGeometry == [type |-> "null", hasCoords |-> FALSE, coordinates |-> <<>>]

(* The bbox member of a document: absent, or an array of numbers *)
NoBbox == [isArray |-> FALSE, items |-> <<>>]

(* Map.tsx:16: no bounds, the null that bboxFromGeoJSON returns *)
NoBox == <<>>

(* A parsed response body: its type and bbox members, its features when it is *)
(* a collection and its geometry when it is a feature or a bare geometry      *)
NoData == [kind |-> "null", error |-> "", payload |-> NoPayload, type |-> "",
           bbox |-> NoBbox, features |-> <<>>, geometry |-> NoGeometry]

(* A polygon feature of one ring *)
PolygonFeature(ring) ==
    [geometry |-> [type |-> "Polygon", hasCoords |-> TRUE, coordinates |-> << <<ring>> >>],
     properties |-> [kind |-> "null", fields |-> <<>>]]

Square(x0, y0, x1, y1) == << <<x0, y0>>, <<x1, y0>>, <<x1, y1>>, <<x0, y1>>, <<x0, y0>> >>

(* The provider's answer to a payload: one square around the destination, *)
(* wider with the travel time                                             *)
timeMap(p) ==
    << PolygonFeature(Square(p.lng - p.travel_time, p.lat - p.travel_time,
                             p.lng + p.travel_time, p.lat + p.travel_time)) >>

GeoJson(p) == [kind |-> "geojson", error |-> "", payload |-> p, type |-> "FeatureCollection",
               bbox |-> NoBbox, features |-> timeMap(p), geometry |-> NoGeometry]

Text(p) == [kind |-> "text", error |-> "", payload |-> p, type |-> "",
            bbox |-> NoBbox, features |-> <<>>, geometry |-> NoGeometry]

ErrorJson(msg) == [kind |-> "error", error |-> msg, payload |-> NoPayload, type |-> "",
                   bbox |-> NoBbox, features |-> <<>>, geometry |-> NoGeometry]

Response(status, data) == [status |-> status, data |-> data]

NoResponse == Response(0, NoData)

----------------------------------------------------------------------------
(* Requests *)

RawBody(json, lat, lng, iso, m, md) ==
    [json |-> json, lat |-> lat, lng |-> lng, arriveByISO |-> iso,
     minutes |-> m, mode |-> md]

(* One POST to /api/isochrone.                                            *)
(*   page:  "pending" (fetch not settled), "settled" (body published),     *)
(*          "rejected" (fetch or resp.json() rejected), "external" (not    *)
(*          issued by the page)                                            *)
(*   route: "sent" (handler not started), "awaiting" (suspended at the     *)
(*          provider fetch), "done" (response returned)                    *)
(*   now, key, sent: the handler's locals now, key and payload             *)
(*   upstream: what the provider call came to, once it has                 *)
NewCall(body, page) ==
    [body |-> body, page |-> page, aborted |-> FALSE, route |-> "sent",
     now |-> 0, key |-> "", sent |-> NoPayload, upstream |-> "", resp |-> NoResponse]

Calls == 1..Len(calls)

Return(i, resp) ==
    calls' = [calls EXCEPT ![i].route = "done", ![i].resp = resp, ![i].now = 0]

(* A credentials check that lets every request through *)
missingCredsNever == FALSE

(* route.ts:35  !appId || !apiKey *)
missingCreds == ~creds

(* An entry still served at its expiry timestamp *)
FreshInclusive(key, now) == key \in DOMAIN cache /\ cache[key].expiresAt >= now

Fresh(key, now) == key \in DOMAIN cache /\ cache[key].expiresAt > now

cacheSet(key, entry) ==
    [k \in DOMAIN cache \cup {key} |-> IF k = key THEN entry ELSE cache[k]]

(* route.ts:17-75: the handler up to its first suspension at the provider fetch *)
RouteStart(i) ==
    /\ i \in Calls
    /\ calls[i].route = "sent"
    /\ LET body == calls[i].body
           key == cacheKey(body)
           now == clock
       IN  IF ~body.json
             THEN Return(i, Response(500, ErrorJson("Isochrone route crashed")))
           ELSE IF ~valid(body)
             THEN Return(i, Response(400, ErrorJson("Invalid request body")))
           ELSE IF missingCreds
             THEN Return(i, Response(500,
                     ErrorJson("Missing env vars TRAVELTIME_APP_ID / TRAVELTIME_API_KEY")))
           ELSE IF Fresh(key, now)
             THEN Return(i, Response(200, cache[key].geojson))
           ELSE calls' = [calls EXCEPT ![i].route = "awaiting", ![i].now = now,
                                       ![i].key = key, ![i].sent = payload(body)]
    /\ UNCHANGED <<clientVars, matchVars, mapVars, cache, creds, clock>>

(* What the provider call can come to: *)
(*   "json"     2xx, a JSON content-type, a body that parses                *)
(*   "text"     2xx, a content-type without "json"                          *)
(*   "badjson"  2xx, a JSON content-type, a body JSON.parse throws on       *)
(*   "fail"     a status outside 2xx                                        *)
(*   "reject"   fetch itself rejects                                        *)
Outcomes == {"json", "text", "badjson", "fail", "reject"}

(* The status check left out *)
respOkAlways(outcome) == TRUE

(* route.ts:81  resp.ok *)
respOk(outcome) == outcome # "fail"

(* route.ts:95  contentType.includes("json") ? JSON.parse(text) : text throws *)
parseThrows(outcome) == outcome = "badjson"

(* route.ts:66-117: the handler from the provider's answer to its return *)
ProviderRespond(i, outcome) ==
    /\ i \in Calls
    /\ calls[i].route = "awaiting"
    /\ LET c == calls[i]
           geojson == IF outcome = "json" THEN GeoJson(c.sent) ELSE Text(c.sent)
           Answer(resp) == calls' = [calls EXCEPT ![i].route = "done", ![i].resp = resp,
                                                  ![i].now = 0, ![i].upstream = outcome]
       IN  IF outcome = "reject"
             THEN /\ Answer(Response(500, ErrorJson("Isochrone route crashed")))
                  /\ UNCHANGED cache
           ELSE IF ~respOk(outcome)
             THEN /\ Answer(Response(502, ErrorJson("TravelTime request failed")))
                  /\ UNCHANGED cache
           ELSE IF parseThrows(outcome)
             THEN /\ Answer(Response(502, ErrorJson("TravelTime returned non-JSON response")))
                  /\ UNCHANGED cache
           ELSE /\ cache' = cacheSet(c.key, [expiresAt |-> c.now + TTL_MS, geojson |-> geojson])
                /\ Answer(Response(200, geojson))
    /\ UNCHANGED <<clientVars, matchVars, mapVars, creds, clock>>

(* Time passes: by a debounce window, or by the rest of a TTL *)
Steps == {DEBOUNCE_MS, TTL_MS - DEBOUNCE_MS}

Ticks(t) == (t \div (TTL_MS - DEBOUNCE_MS)) + ((t % (TTL_MS - DEBOUNCE_MS)) \div DEBOUNCE_MS)

Tick(d) ==
    /\ d \in Steps
    /\ Ticks(clock) < MaxTicks
    /\ clock' = clock + d
    /\ UNCHANGED <<clientVars, matchVars, mapVars, calls, cache, creds>>

----------------------------------------------------------------------------
(* The route on its own, called with arbitrary request bodies *)

Halifax == RawBody(TRUE, Num(446511000), Num(-635827000), Str("2026-01-05T08:30:00-04:00"),
                   Num(240), Str("public_transport"))

RouteBodies ==
    { Halifax,
      [Halifax EXCEPT !.minutes = Num(8000)],
      [Halifax EXCEPT !.minutes = NaN],
      [Halifax EXCEPT !.json = FALSE] }

Post(body) ==
    /\ Len(calls) < MaxPosts
    /\ calls' = Append(calls, NewCall(body, "external"))
    /\ UNCHANGED <<clientVars, matchVars, mapVars, cache, creds, clock>>

(* One request, over the range of minutes a body can carry *)
ClampMinutes == {-8, 0, 7, 8, 9, 240, 1440, 1441, 8000}

ClampBodies ==
    { [Halifax EXCEPT !.minutes = Num(m)] : m \in ClampMinutes }
    \cup { [Halifax EXCEPT !.minutes = NaN], [Halifax EXCEPT !.minutes = Str("30")] }

(* page.tsx:55: no destination chosen yet *)
NoDestination == [name |-> "", lat |-> 0, lng |-> 0]

NoCollection == [loaded |-> FALSE, features |-> <<>>]

NoProbe == [boxed |-> {}, centroided |-> {}, matched |-> {}]

ClientInit ==
    /\ destination = NoDestination
    /\ arriveBy = [hh |-> 8, mm |-> 30]
    /\ minutes = 240
    /\ mode = "public_transport"
    /\ isochrone = NoData
    /\ loadingIso = FALSE
    /\ tRef = 0
    /\ abortRef = 0
    /\ timers = {}
    /\ renders = 0
    /\ rejections = {}
    /\ publishedBy = 0
    /\ communities = NoCollection
    /\ within = <<>>
    /\ matchPending = TRUE
    /\ probe = NoProbe
    /\ matchError = FALSE
    /\ fitted = NoBox
    /\ mapPending = TRUE

Init ==
    /\ ClientInit
    /\ calls = <<>>
    /\ cache = [k \in {} |-> 0]
    /\ creds \in BOOLEAN
    /\ clock = 0

ClampInit ==
    /\ ClientInit
    /\ calls \in { <<NewCall(body, "external")>> : body \in ClampBodies }
    /\ cache = [k \in {} |-> 0]
    /\ creds \in BOOLEAN
    /\ clock = 0

ClampNext ==
    \/ RouteStart(1)
    \/ \E outcome \in Outcomes : ProviderRespond(1, outcome)
    \/ \E d \in Steps : Tick(d)

ClampSpec == ClampInit /\ [][ClampNext]_vars

(* Two requests side by side: coordinates on both sides of a rounding step  *)
(* and one halfway between two fifth decimals, and credentials that come    *)
(* and go between requests                                                  *)
PairLats == {446511020, 446511049, 446511051, 446511150}

PairLngs == {-635827020, -635826960}

PairBodies ==
    { [Halifax EXCEPT !.lat = Num(a), !.lng = Num(o)] : a \in PairLats, o \in PairLngs }

(* route.ts:32-33: process.env is read anew by every request *)
EnvChange ==
    /\ creds' = ~creds
    /\ UNCHANGED <<clientVars, matchVars, mapVars, calls, cache, clock>>

PairInit ==
    /\ ClientInit
    /\ calls \in { <<NewCall(a, "external"), NewCall(b, "external")>> :
                      a \in PairBodies, b \in PairBodies }
    /\ cache = [k \in {} |-> 0]
    /\ creds \in BOOLEAN
    /\ clock = 0

PairNext ==
    \/ \E i \in Calls : RouteStart(i)
    \/ \E i \in Calls, outcome \in Outcomes : ProviderRespond(i, outcome)
    \/ \E d \in Steps : Tick(d)
    \/ EnvChange

PairSpec == PairInit /\ [][PairNext]_vars

(* Two requests side by side whose strings hold the separator of the key: *)
(* arrival "T|30" with 5 minutes, and arrival "T" with 30 minutes and a   *)
(* mode that starts with "5|"                                             *)
KeyBodies ==
    { Halifax,
      [Halifax EXCEPT !.arriveByISO = Str("T|30"), !.minutes = Num(40)],
      [Halifax EXCEPT !.arriveByISO = Str("T"), !.minutes = Num(240),
                      !.mode = Str("5|public_transport")] }

KeyInit ==
    /\ ClientInit
    /\ calls \in { <<NewCall(a, "external"), NewCall(b, "external")>> :
                      a \in KeyBodies, b \in KeyBodies }
    /\ cache = [k \in {} |-> 0]
    /\ creds \in BOOLEAN
    /\ clock = 0

KeySpec == KeyInit /\ [][PairNext]_vars

RouteNext ==
    \/ \E body \in RouteBodies : Post(body)
    \/ \E i \in Calls : RouteStart(i)
    \/ \E i \in Calls, outcome \in Outcomes : ProviderRespond(i, outcome)
    \/ \E d \in Steps : Tick(d)

RouteSpec == Init /\ [][RouteNext]_vars

----------------------------------------------------------------------------
(* The containment engine: the match effect of page.tsx:139-194, the name   *)
(* resolution of page.tsx:32-52 and the turf operations they call.          *)
(* A string whose characters the code inspects is the sequence of its       *)
(* characters; a geometry's coordinates are a sequence of polygons, each a   *)
(* sequence of rings, each a sequence of <<x, y>> positions, and hasCoords   *)
(* is FALSE when the coordinates member is missing or holds something that   *)
(* is not an array where a ring or a position is due.                        *)

UnnamedArea == <<"U", "n", "n", "a", "m", "e", "d", " ", "a", "r", "e", "a">>

(* The characters String.prototype.trim removes: ECMAScript's WhiteSpace and *)
(* LineTerminator.  A character that has no escape in a string here goes by  *)
(* its code point                                                            *)
WhiteSpace ==
    { "\t", "U+000B", "\f", " ", "U+00A0", "U+FEFF",
      "U+1680", "U+2000", "U+2001", "U+2002", "U+2003", "U+2004", "U+2005", "U+2006",
      "U+2007", "U+2008", "U+2009", "U+200A", "U+202F", "U+205F", "U+3000",
      "\n", "\r", "U+2028", "U+2029" }

RECURSIVE trimStart(_)
trimStart(str) ==
    IF str # <<>> /\ Head(str) \in WhiteSpace THEN trimStart(Tail(str)) ELSE str

RECURSIVE trimEnd(_)
trimEnd(str) ==
    IF str # <<>> /\ str[Len(str)] \in WhiteSpace
    THEN trimEnd(SubSeq(str, 1, Len(str) - 1))
    ELSE str

trimNothing(str) == str

trim(str) == trimEnd(trimStart(str))

(* Property values: a string, or something that is not a string *)
StrVal(c) == [t |-> "string", c |-> c]

NumVal == [t |-> "number", c |-> <<>>]

Undefined == [t |-> "undefined", c |-> <<>>]

NoFields == [k \in {} |-> Undefined]

NullProps == [kind |-> "null", fields |-> NoFields]

Props(fields) == [kind |-> "object", fields |-> fields]

candidates ==
    <<"GSA_NAME", "COMMUNITY", "COMMUNITY_NAME", "community_name",
      "NAME", "name", "label", "LABEL">>

(* props[k] *)
Get(props, k) == IF k \in DOMAIN props.fields THEN props.fields[k] ELSE Undefined

RECURSIVE pickFrom(_, _)
pickFrom(props, i) ==
    IF i > Len(candidates) THEN UnnamedArea
    ELSE LET v == Get(props, candidates[i])
         IN  IF v.t = "string" /\ trim(v.c) # <<>>
             THEN trim(v.c)
             ELSE pickFrom(props, i + 1)

pickCommunityName(props) ==
    IF props.kind # "object" THEN UnnamedArea ELSE pickFrom(props, 1)

(* mode.replaceAll("_", " ") *)
modeLabel(md) ==
    CASE md = "public_transport" -> "public transport"
      [] md = "driving+public_transport" -> "driving+public transport"
      [] OTHER -> md

RECURSIVE Flatten(_)
Flatten(ss) == IF ss = <<>> THEN <<>> ELSE Head(ss) \o Flatten(Tail(ss))

(* String.localeCompare on the characters used.  The strings are compared in *)
(* canonical decomposition, so a letter written with its accent in one code  *)
(* point and the same letter followed by the combining accent compare as     *)
(* equal.  Letters compare by alphabet position whatever their case and      *)
(* accent, a space sorts before every letter; of two strings with the same   *)
(* letters the one without the accent is first, and of two that agree in     *)
(* accents too the one with the lower-case letter is first                   *)
Lower == <<" ", "a", "b", "d", "e", "m", "n", "r", "u">>

Upper == <<" ", "A", "B", "D", "E", "M", "N", "R", "U">>

(* the weights of a character; U+0301, the combining acute accent, has no *)
(* primary weight                                                         *)
primary(c) ==
    IF c = "U+0301" THEN 0 ELSE CHOOSE i \in 1..Len(Lower) : Lower[i] = c \/ Upper[i] = c

tertiary(c) == IF c = "U+0301" \/ \E i \in 1..Len(Lower) : Lower[i] = c THEN 0 ELSE 1

RECURSIVE compareSeq(_, _)
compareSeq(x, y) ==
    IF x = <<>> /\ y = <<>> THEN 0
    ELSE IF x = <<>> THEN -1
    ELSE IF y = <<>> THEN 1
    ELSE IF Head(x) < Head(y) THEN -1
    ELSE IF Head(x) > Head(y) THEN 1
    ELSE compareSeq(Tail(x), Tail(y))

(* U+00E1, a with acute, decomposes into a followed by U+0301 *)
localeCompare(a, b) ==
    LET decompose(c) == IF c = "U+00E1" THEN <<"a", "U+0301">> ELSE <<c>>
        normalize(str) == Flatten([i \in 1..Len(str) |-> decompose(str[i])])
        secondary(c) == IF c = "U+0301" THEN 2 ELSE 1
        x == normalize(a)
        y == normalize(b)
        weights(str, w(_)) == [i \in 1..Len(str) |-> w(str[i])]
        heavy(ws) == SelectSeq(ws, LAMBDA n : n # 0)
        p == compareSeq(heavy(weights(x, primary)), heavy(weights(y, primary)))
        q == compareSeq(weights(x, secondary), weights(y, secondary))
    IN  IF p # 0 THEN p
        ELSE IF q # 0 THEN q
        ELSE compareSeq(weights(x, tertiary), weights(y, tertiary))

(* Geometries *)
Geometry(type, polys) == [type |-> type, hasCoords |-> TRUE, coordinates |-> polys]

Feature(geometry, props) == [geometry |-> geometry, properties |-> props]

(* combined.features?.[0] of a collection without features *)
NoFeature ==
    Feature([type |-> "undefined", hasCoords |-> FALSE, coordinates |-> <<>>], NullProps)

KnownTypes == {"Point", "MultiPoint", "Polygon", "MultiPolygon", "GeometryCollection"}

(* turf's coordEach: the positions of a geometry in order; with             *)
(* excludeWrapCoord the last position of every polygon ring is left out     *)
coordEach(g, excludeWrapCoord) ==
    IF excludeWrapCoord /\ g.type \in {"Polygon", "MultiPolygon"}
    THEN LET rings == Flatten(g.coordinates)
         IN  Flatten([r \in 1..Len(rings) |-> SubSeq(rings[r], 1, Len(rings[r]) - 1)])
    ELSE Flatten(Flatten(g.coordinates))

(* coordEach throws on a geometry type it does not know and on coordinates  *)
(* it cannot walk                                                            *)
coordEachThrows(g) == g.type \notin KnownTypes \/ ~g.hasCoords

Infinity == 1000000000

MinOf(S) == CHOOSE x \in S : \A y \in S : x <= y

MaxOf(S) == CHOOSE x \in S : \A y \in S : x >= y

(* turf.bbox: <<minX, minY, maxX, maxY>>, starting from the infinities *)
bbox(g) ==
    LET pts == coordEach(g, FALSE)
        xs == {pts[i][1] : i \in 1..Len(pts)}
        ys == {pts[i][2] : i \in 1..Len(pts)}
    IN  <<MinOf(xs \cup {Infinity}), MinOf(ys \cup {Infinity}),
          MaxOf(xs \cup {-Infinity}), MaxOf(ys \cup {-Infinity})>>

bboxIntersectsStrict(b, isoBbox) ==
    ~(b[3] <= isoBbox[1] \/ b[1] >= isoBbox[3] \/ b[4] <= isoBbox[2] \/ b[2] >= isoBbox[4])

bboxIntersects(b, isoBbox) ==
    ~(b[3] < isoBbox[1] \/ b[1] > isoBbox[3] \/ b[4] < isoBbox[2] \/ b[2] > isoBbox[4])

skippedNever(b, isoBbox) == FALSE

(* if (!bboxIntersects) continue *)
skipped(b, isoBbox) == ~bboxIntersects(b, isoBbox)

RECURSIVE SumOf(_, _)
SumOf(pts, axis) == IF pts = <<>> THEN 0 ELSE Head(pts)[axis] + SumOf(Tail(pts), axis)

(* turf.centroid: the mean of the positions, kept as the two sums and the   *)
(* count so that it stays exact                                              *)
centroid(g) ==
    LET pts == coordEach(g, TRUE)
    IN  [sx |-> SumOf(pts, 1), sy |-> SumOf(pts, 2), n |-> Len(pts)]

(* a geometry without positions has a NaN mean, which turf's point() rejects *)
centroidThrows(g) == coordEachThrows(g) \/ Len(coordEach(g, TRUE)) = 0

(* turf's inRing for the point c.sx/c.n, c.sy/c.n; both the point and the   *)
(* ring are scaled by c.n and taken relative to the ring's first position,   *)
(* which leaves every comparison as it is and keeps the products small       *)
inRing(c, ring, ignoreBoundary) ==
    LET r == IF ring[1] = ring[Len(ring)] THEN SubSeq(ring, 1, Len(ring) - 1) ELSE ring
        X(i) == (r[i][1] - r[1][1]) * c.n
        Y(i) == (r[i][2] - r[1][2]) * c.n
        px == c.sx - r[1][1] * c.n
        py == c.sy - r[1][2] * c.n
        prev(i) == IF i = 1 THEN Len(r) ELSE i - 1
        onBoundary(i) ==
            LET j == prev(i)
            IN  /\ py * (X(i) - X(j)) + Y(i) * (X(j) - px) + Y(j) * (px - X(i)) = 0
                /\ (X(i) - px) * (X(j) - px) <= 0
                /\ (Y(i) - py) * (Y(j) - py) <= 0
        intersect(i) ==
            LET j == prev(i)
                d == Y(j) - Y(i)
            IN  /\ (Y(i) > py) # (Y(j) > py)
                /\ IF d > 0
                   THEN (px - X(i)) * d < (X(j) - X(i)) * (py - Y(i))
                   ELSE (px - X(i)) * d > (X(j) - X(i)) * (py - Y(i))
    IN  IF \E i \in 1..Len(r) : onBoundary(i)
        THEN ~ignoreBoundary
        ELSE Cardinality({i \in 1..Len(r) : intersect(i)}) % 2 = 1

(* turf.booleanPointInPolygon: inside the outer ring of some polygon and in *)
(* none of its holes; the boundary counts as inside                          *)
booleanPointInPolygon(c, g) ==
    \E p \in 1..Len(g.coordinates) :
        LET poly == g.coordinates[p]
        IN  /\ inRing(c, poly[1], FALSE)
            /\ \A k \in 2..Len(poly) : ~inRing(c, poly[k], TRUE)

(* a region that is not polygonal has no rings to walk *)
pointInPolygonThrows(g) == g.type \notin {"Polygon", "MultiPolygon"}

(* turf.combine: the fragments grouped by kind into one multi-geometry per   *)
(* kind, which takes over what each fragment has for coordinates; the        *)
(* non-empty groups are returned in the order of their names                 *)
group(features, types, multi) ==
    LET members == SelectSeq(features, LAMBDA f : f.geometry.type \in types)
    IN  Feature([type |-> multi,
                 hasCoords |-> \A i \in 1..Len(members) : members[i].geometry.hasCoords,
                 coordinates |->
                     Flatten([i \in 1..Len(members) |-> members[i].geometry.coordinates])],
                NullProps)

combine(features) ==
    SelectSeq(<<group(features, {"Point", "MultiPoint"}, "MultiPoint"),
                group(features, {"Polygon", "MultiPolygon"}, "MultiPolygon")>>,
              LAMBDA f : ~f.geometry.hasCoords \/ f.geometry.coordinates # <<>>)

isoFeatureOf(combined) == IF combined = <<>> THEN NoFeature ELSE combined[1]

(* if (!isoFeature) *)
noFeature(isoFeature) == isoFeature = NoFeature

(* if (!isochrone || !communities) *)
noInputs(iso, comm) == iso.kind = "null" \/ ~comm.loaded

Hit(name, md) == [name |-> name, mode |-> modeLabel(md)]

NoHits == [hits |-> <<>>, boxed |-> {}, centroided |-> {}, matched |-> {}, raised |-> FALSE]

(* One pass of the loop body over candidate i *)
visit(f, i, isoFeature, isoBbox, md, acc) ==
    IF f.geometry.type = "null" THEN acc
    ELSE IF coordEachThrows(f.geometry)
    THEN [acc EXCEPT !.boxed = @ \cup {i}, !.raised = TRUE]
    ELSE IF skipped(bbox(f.geometry), isoBbox)
    THEN [acc EXCEPT !.boxed = @ \cup {i}]
    ELSE LET inside ==
                 IF centroidThrows(f.geometry) \/ pointInPolygonThrows(isoFeature.geometry)
                 THEN FALSE
                 ELSE booleanPointInPolygon(centroid(f.geometry), isoFeature.geometry)
         IN  [acc EXCEPT !.boxed = @ \cup {i},
                         !.centroided = @ \cup {i},
                         !.matched = IF inside THEN @ \cup {i} ELSE @,
                         !.hits = IF inside
                                  THEN Append(@, Hit(pickCommunityName(f.properties), md))
                                  ELSE @]

RECURSIVE scan(_, _, _, _, _, _)
scan(features, i, isoFeature, isoBbox, md, acc) ==
    IF i > Len(features) \/ acc.raised THEN acc
    ELSE scan(features, i + 1, isoFeature, isoBbox, md,
              visit(features[i], i, isoFeature, isoBbox, md, acc))

dedupKeepsAll(hits) == hits

(* Array.from(new Map(hits.map(h => [h.name, h])).values()): one entry per   *)
(* name, at the place of the name's first hit, holding its last hit          *)
dedup(hits) ==
    LET firsts == SelectSeq([i \in 1..Len(hits) |-> i],
                            LAMBDA i : \A j \in 1..(i - 1) : hits[j].name # hits[i].name)
        last(i) == MaxOf({j \in 1..Len(hits) : hits[j].name = hits[i].name})
    IN  [k \in 1..Len(firsts) |-> hits[last(firsts[k])]]

(* the place of h in a sorted list: behind everything that does not compare *)
(* greater, which keeps the sort stable                                      *)
RECURSIVE insert(_, _)
insert(h, sorted) ==
    IF sorted = <<>> THEN <<h>>
    ELSE IF localeCompare(Head(sorted).name, h.name) <= 0
    THEN <<Head(sorted)>> \o insert(h, Tail(sorted))
    ELSE <<h>> \o sorted

RECURSIVE sortInserting(_, _)
sortInserting(list, sorted) ==
    IF list = <<>> THEN sorted ELSE sortInserting(Tail(list), insert(Head(list), sorted))

sortKeepsOrder(list) == list

sort(list) == sortInserting(list, <<>>)

(* turf's featureEach, which combine walks its input with: the features of a *)
(* collection, a feature itself, and nothing of any other value              *)
featureEach(doc) ==
    IF doc.type = "FeatureCollection" THEN doc.features
    ELSE IF doc.type = "Feature" THEN <<Feature(doc.geometry, NullProps)>>
    ELSE <<>>

(* The whole effect body as a function of its dependencies *)
match(iso, comm, md) ==
    IF noInputs(iso, comm) THEN NoHits
    ELSE LET isoFeature == isoFeatureOf(combine(featureEach(iso)))
         IN  IF noFeature(isoFeature) THEN NoHits
             ELSE IF coordEachThrows(isoFeature.geometry)
             THEN [NoHits EXCEPT !.raised = TRUE]
             ELSE LET acc == scan(comm.features, 1, isoFeature, bbox(isoFeature.geometry),
                                  md, NoHits)
                  IN  [acc EXCEPT !.hits = sort(dedup(@))]

(* page.tsx:139-194: a run of the match effect in a render with travel mode *)
(* md: it publishes the list, or throws and leaves the list as it was       *)
matchRun(md) ==
    LET m == match(isochrone, communities, md)
    IN  /\ within' = IF m.raised THEN within ELSE m.hits
        /\ probe' = [boxed |-> m.boxed, centroided |-> m.centroided, matched |-> m.matched]
        /\ matchError' = m.raised
        /\ matchPending' = FALSE

----------------------------------------------------------------------------
(* The page: inputs, the debounce timer and the abortable fetch *)

presets ==
    << [name |-> "NSCC IT Campus", lat |-> 446695774, lng |-> -636147024],
       [name |-> "Dalhousie University", lat |-> 446367000, lng |-> -635952000],
       [name |-> "Saint Mary's University", lat |-> 446296000, lng |-> -635782000] >>

(* Map.tsx:75-77: where a click on the map can fall: any coordinate, here one *)
(* between the presets that is no round number                                *)
Clicks == { [lat |-> 446511049, lng |-> -635827051] }

ArriveBys == { [hh |-> 8, mm |-> 30], [hh |-> 9, mm |-> 0] }

SliderMinutes == {240, 280}

Modes == {"public_transport", "driving+public_transport"}

(* The weekday new Date() is moved on to, as yyyy-MM-dd *)
Today == "2026-01-05"

toArriveByISO(hhmm) ==
    Today \o "T" \o Pad(ToString(hhmm.hh), 2) \o ":" \o Pad(ToString(hhmm.mm), 2)
          \o ":00-04:00"

(* page.tsx:116-122: the body the timer callback posts, from the values its closure holds *)
fetchBody(d, iso, m, md) ==
    RawBody(TRUE, Num(d.lat), Num(d.lng), Str(iso), Num(m), Str(md))

(* A clearTimeout that leaves the timer pending *)
clearTimeoutKeeps(ts, id) == ts

clearTimeout(ts, id) == { t \in ts : t.id # id }

(* An abort() that does not reach the fetch *)
abortIgnored(cs, i) == cs

(* AbortController.abort() on controller i: the signal is marked aborted and a *)
(* fetch still pending on it rejects                                          *)
abort(cs, i) ==
    IF i = 0 THEN cs
    ELSE [cs EXCEPT ![i].aborted = TRUE,
                    ![i].page = IF cs[i].page = "pending" THEN "rejected" ELSE cs[i].page]

(* The calls whose fetch rejects when controller i is aborted *)
Rejected(cs, i) == IF i # 0 /\ cs[i].page = "pending" THEN {i} ELSE {}

(* page.tsx:132-135: the cleanup of the previous effect run, which exists only *)
(* when that run had a destination                                            *)
cleanupTimers(ts) ==
    IF destination # NoDestination /\ tRef # 0 THEN clearTimeout(ts, tRef) ELSE ts

(* A cleanup that only clears the timer *)
cleanupCallsNoAbort(cs) == cs

cleanupCalls(cs) ==
    IF destination # NoDestination THEN abort(cs, abortRef) ELSE cs

cleanupRejected == IF destination # NoDestination THEN Rejected(calls, abortRef) ELSE {}

(* A timer whose callback sees the values of the render before *)
timerStale(id, due, d, iso, m, md) ==
    [id |-> id, due |-> due, destination |-> d, arriveByISO |-> toArriveByISO(arriveBy),
     minutes |-> minutes, mode |-> mode]

(* page.tsx:103-131: setTimeout(async () => ..., 350): the callback holds the *)
(* values of the render that set it                                           *)
timer(id, due, d, iso, m, md) ==
    [id |-> id, due |-> due, destination |-> d, arriveByISO |-> iso,
     minutes |-> m, mode |-> md]

(* page.tsx:98-136: the render that an input handler brings about, with the     *)
(* effects React runs before the next event: the cleanup and the fetch effect,  *)
(* and the match effect of page.tsx:139-194 when the travel mode changed or a   *)
(* catchment that arrived has not been rendered yet.  The map's own effect may  *)
(* wait for the style to load (Map.tsx:168-169) and stays a step of its own     *)
Effect(d, ab, m, md) ==
    /\ destination' = d
    /\ arriveBy' = ab
    /\ minutes' = m
    /\ mode' = md
    /\ calls' = cleanupCalls(calls)
    /\ rejections' = rejections \cup cleanupRejected
    /\ loadingIso' = IF cleanupRejected # {} THEN FALSE ELSE loadingIso
    /\ renders < MaxChanges
    /\ renders' = renders + 1
    /\ IF d = NoDestination
         THEN /\ timers' = cleanupTimers(timers)
              /\ UNCHANGED tRef
         ELSE /\ tRef' = renders + 1
              /\ timers' = (IF tRef # 0 THEN clearTimeout(cleanupTimers(timers), tRef)
                                        ELSE cleanupTimers(timers))
                           \cup { timer(renders + 1, clock + DEBOUNCE_MS,
                                         d, toArriveByISO(ab), m, md) }
    /\ IF matchPending \/ md # mode
         THEN matchRun(md)
         ELSE UNCHANGED <<within, matchPending, probe, matchError>>
    /\ UNCHANGED <<isochrone, abortRef, publishedBy, cache, creds, clock,
                   communities, mapVars>>

(* page.tsx:212: a click on a preset button; every click hands setDestination *)
(* a new object, so the effect runs also when the same preset is clicked again *)
SetDestination(p) ==
    /\ p \in 1..Len(presets)
    /\ Effect(presets[p], arriveBy, minutes, mode)

(* page.tsx:285-287: a click on the map drops a pin there *)
MapClick(coords) ==
    /\ coords \in Clicks
    /\ Effect([name |-> "Dropped pin", lat |-> coords.lat, lng |-> coords.lng],
              arriveBy, minutes, mode)

(* page.tsx:225 *)
SetArriveBy(v) ==
    /\ v \in ArriveBys \ {arriveBy}
    /\ Effect(destination, v, minutes, mode)

(* page.tsx:250 *)
SetMinutes(v) ==
    /\ v \in SliderMinutes \ {minutes}
    /\ Effect(destination, arriveBy, v, mode)

(* page.tsx:234 *)
SetMode(v) ==
    /\ v \in Modes \ {mode}
    /\ Effect(destination, arriveBy, minutes, v)

(* page.tsx:103-123: the timer callback up to its suspension at fetch *)
TimerFire(t) ==
    /\ t \in timers
    /\ clock >= t.due
    /\ timers' = timers \ {t}
    /\ calls' = Append(abort(calls, abortRef),
                       NewCall(fetchBody(t.destination, t.arriveByISO, t.minutes, t.mode),
                               "pending"))
    /\ rejections' = rejections \cup Rejected(calls, abortRef)
    /\ abortRef' = Len(calls) + 1
    /\ loadingIso' = TRUE
    /\ UNCHANGED <<destination, arriveBy, minutes, mode, isochrone, tRef, renders,
                   publishedBy, cache, creds, clock, matchVars, mapVars>>

(* page.tsx:125-129: the response arrives, its body is parsed and published; *)
(* page.tsx:194 and Map.tsx:172: the new catchment makes the match effect and *)
(* the map's catchment effect run again                                       *)
Receive(i) ==
    /\ i \in Calls
    /\ calls[i].page = "pending"
    /\ calls[i].route = "done"
    /\ isochrone' = calls[i].resp.data
    /\ publishedBy' = i
    /\ loadingIso' = FALSE
    /\ calls' = [calls EXCEPT ![i].page = "settled"]
    /\ matchPending' = TRUE
    /\ mapPending' = TRUE
    /\ UNCHANGED <<destination, arriveBy, minutes, mode, tRef, abortRef, timers,
                   renders, rejections, cache, creds, clock,
                   communities, within, probe, matchError, fitted>>

Next ==
    \/ \E p \in 1..Len(presets) : SetDestination(p)
    \/ \E c \in Clicks : MapClick(c)
    \/ \E v \in ArriveBys : SetArriveBy(v)
    \/ \E v \in SliderMinutes : SetMinutes(v)
    \/ \E v \in Modes : SetMode(v)
    \/ \E t \in timers : TimerFire(t)
    \/ \E i \in Calls : RouteStart(i)
    \/ \E i \in Calls, outcome \in Outcomes : ProviderRespond(i, outcome)
    \/ \E i \in Calls : Receive(i)
    \/ Tick(DEBOUNCE_MS)

Spec == Init /\ [][Next]_vars

(* The page session with a scheduler that does its work: while a timer waits *)
(* time goes on, a due timer fires, the route handles what it was sent, the  *)
(* provider call comes to an end and a response that arrived is read; the   *)
(* inputs change by clicks on the presets and by the choice of travel mode   *)
TimePasses ==
    /\ timers # {}
    /\ \A t \in timers : clock < t.due
    /\ clock' = clock + DEBOUNCE_MS
    /\ UNCHANGED <<clientVars, matchVars, mapVars, calls, cache, creds>>

LiveNext ==
    \/ \E p \in 1..Len(presets) : SetDestination(p)
    \/ \E v \in Modes : SetMode(v)
    \/ \E t \in timers : TimerFire(t)
    \/ \E i \in Calls : RouteStart(i)
    \/ \E i \in Calls, outcome \in Outcomes : ProviderRespond(i, outcome)
    \/ \E i \in Calls : Receive(i)
    \/ TimePasses

Fairness ==
    /\ WF_vars(TimePasses)
    /\ WF_vars(\E t \in timers : TimerFire(t))
    /\ WF_vars(\E i \in Calls : RouteStart(i))
    /\ WF_vars(\E i \in Calls, outcome \in Outcomes : ProviderRespond(i, outcome))
    /\ WF_vars(\E i \in Calls : Receive(i))

LiveSpec == Init /\ [][LiveNext]_vars /\ Fairness

----------------------------------------------------------------------------
(* The match effect and the candidate areas *)

(* page.tsx:139-194: the match effect runs in a render of its own, for a    *)
(* catchment or candidate areas that arrived                                 *)
MatchEffect ==
    /\ matchPending
    /\ matchRun(mode)
    /\ UNCHANGED <<clientVars, calls, cache, creds, clock, communities, mapVars>>

(* The containment engine on its own: a catchment and a travel mode as they *)
(* stand, candidate areas that arrive once, and the effect run after each   *)
MaxCandidates == 3

Catchment(features) ==
    [kind |-> "geojson", error |-> "", payload |-> NoPayload, type |-> "FeatureCollection",
     bbox |-> NoBbox, features |-> features, geometry |-> NoGeometry]

PointFeature(x, y) == Feature(Geometry("Point", << << << <<x, y>> >> >> >>), NullProps)

Catchments ==
    { NoData,
      Catchment(<<>>),
      Catchment(<<Feature(Geometry("GeometryCollection", <<>>), NullProps)>>),
      Catchment(<<PolygonFeature(Square(0, 0, 4, 4))>>),
      Catchment(<<PolygonFeature(Square(0, 0, 4, 4)), PolygonFeature(Square(6, 0, 8, 2))>>),
      Catchment(<<PointFeature(1, 1), PolygonFeature(Square(0, 0, 4, 4))>>),
      Catchment(<<Feature([type |-> "Polygon", hasCoords |-> FALSE, coordinates |-> <<>>],
                          NullProps)>>) }

Area(ring, fields) == Feature(Geometry("Polygon", << <<ring>> >>), Props(fields))

Areas ==
    { Area(Square(1, 1, 3, 3), "NAME" :> StrVal(<<"U+00E1">>)),
      Area(Square(6, 0, 8, 2), "name" :> StrVal(<<"\t", "a", "U+0301", " ", "\n">>)),
      Area(Square(0, 0, 2, 2),
           ("GSA_NAME" :> NumVal) @@ ("COMMUNITY" :> StrVal(<<" ", "\r", "\n">>))
               @@ ("COMMUNITY_NAME" :> StrVal(<<"B">>)) @@ ("NAME" :> StrVal(<<"a">>))),
      Area(Square(2, 2, 4, 4), ("COMMUNITY" :> NumVal) @@ ("NAME" :> StrVal(<<"U+00A0">>))),
      Feature(Geometry("Polygon", << <<Square(4, 4, 6, 6)>> >>), NullProps),
      Feature(Geometry("Unknown", <<>>), Props("NAME" :> StrVal(<<"b">>))),
      Feature(NoGeometry, Props("NAME" :> StrVal(<<"b">>))) }

Collections ==
    { [loaded |-> TRUE, features |-> fs] :
        fs \in UNION { [1..n -> Areas] : n \in 0..MaxCandidates } }

(* turf.bbox(data) walks every feature that has a geometry *)
loadThrows(fc) ==
    \E i \in 1..Len(fc.features) :
        fc.features[i].geometry.type # "null" /\ coordEachThrows(fc.features[i].geometry)

(* page.tsx:72-92: the candidate areas arrive, once.  setCommunities(data) and *)
(* the setCommunities(null) of the catch run in one batch, so a collection     *)
(* whose bounding box cannot be taken is never rendered                        *)
LoadCommunities(fc) ==
    /\ ~communities.loaded
    /\ fc \in Collections
    /\ communities' = IF loadThrows(fc) THEN NoCollection ELSE fc
    /\ matchPending' = IF loadThrows(fc) THEN matchPending ELSE TRUE
    /\ UNCHANGED <<clientVars, calls, cache, creds, clock, within, probe, matchError,
                   mapVars>>

MatchInit ==
    /\ destination = NoDestination
    /\ arriveBy = [hh |-> 8, mm |-> 30]
    /\ minutes = 240
    /\ mode = "public_transport"
    /\ isochrone \in Catchments
    /\ loadingIso = FALSE
    /\ tRef = 0
    /\ abortRef = 0
    /\ timers = {}
    /\ renders = 0
    /\ rejections = {}
    /\ publishedBy = 0
    /\ communities = NoCollection
    /\ within = <<>>
    /\ matchPending = TRUE
    /\ probe = NoProbe
    /\ matchError = FALSE
    /\ fitted = NoBox
    /\ mapPending = TRUE
    /\ calls = <<>>
    /\ cache = [k \in {} |-> 0]
    /\ creds = TRUE
    /\ clock = 0

MatchNext ==
    \/ \E fc \in Collections : LoadCommunities(fc)
    \/ MatchEffect

MatchSpec == MatchInit /\ [][MatchNext]_vars

(* The page with its candidate areas loaded: one small triangle around each *)
(* preset destination, so that a catchment around a preset holds one area   *)
Around(d, name) ==
    Area(<< <<presets[d].lng - 300, presets[d].lat - 300>>,
            <<presets[d].lng + 300, presets[d].lat - 300>>,
            <<presets[d].lng, presets[d].lat + 300>>,
            <<presets[d].lng - 300, presets[d].lat - 300>> >>,
         "NAME" :> StrVal(<<name>>))

Neighbourhoods ==
    [loaded |-> TRUE, features |-> <<Around(1, "a"), Around(2, "b"), Around(3, "d")>>]

ModeInit ==
    /\ destination = NoDestination
    /\ arriveBy = [hh |-> 8, mm |-> 30]
    /\ minutes = 240
    /\ mode = "public_transport"
    /\ isochrone = NoData
    /\ loadingIso = FALSE
    /\ tRef = 0
    /\ abortRef = 0
    /\ timers = {}
    /\ renders = 0
    /\ rejections = {}
    /\ publishedBy = 0
    /\ communities = Neighbourhoods
    /\ within = <<>>
    /\ matchPending = TRUE
    /\ probe = NoProbe
    /\ matchError = FALSE
    /\ fitted = NoBox
    /\ mapPending = TRUE
    /\ calls = <<>>
    /\ cache = [k \in {} |-> 0]
    /\ creds = TRUE
    /\ clock = 0

(* setIsochrone of page.tsx:126 runs in the continuation of an await and   *)
(* only schedules the render: until the match effect has run for the new   *)
(* catchment anything else can happen                                      *)
ModeNext ==
    \/ \E p \in 1..Len(presets) : SetDestination(p)
    \/ \E c \in Clicks : MapClick(c)
    \/ \E v \in Modes : SetMode(v)
    \/ \E t \in timers : TimerFire(t)
    \/ \E i \in Calls : RouteStart(i)
    \/ \E i \in Calls, outcome \in Outcomes : ProviderRespond(i, outcome)
    \/ \E i \in Calls : Receive(i)
    \/ Tick(DEBOUNCE_MS)
    \/ MatchEffect

ModeSpec == ModeInit /\ [][ModeNext]_vars

----------------------------------------------------------------------------
(* The map: the bounds of a catchment, Map.tsx:16-50, and the effect that   *)
(* fits the map to them, Map.tsx:118-172.                                   *)

(* Number.isFinite of a number that JSON can hold *)
isFinite(x) == x # Infinity /\ x # -Infinity

(* The positions that walk reaches below coords: it descends through arrays *)
(* until it meets one that starts with two numbers; depth is the number of  *)
(* array levels above the positions                                         *)
RECURSIVE positions(_, _)
positions(coords, depth) ==
    IF depth = 0 THEN <<coords>>
    ELSE Flatten([i \in 1..Len(coords) |-> positions(coords[i], depth - 1)])

(* walk(geometry?.coordinates): nothing for a missing geometry or member *)
walk(g) == IF ~g.hasCoords THEN <<>> ELSE positions(g.coordinates, 3)

(* What the three branches on fc.type walk *)
walked(fc) ==
    IF fc.type = "FeatureCollection"
    THEN Flatten([i \in 1..Len(fc.features) |-> walk(fc.features[i].geometry)])
    ELSE IF fc.type = "Feature" THEN walk(fc.geometry)
    ELSE walk(fc.geometry)

(* Map.tsx:16-50 *)
bboxFromGeoJSON(fc) ==
    IF fc.bbox.isArray /\ Len(fc.bbox.items) = 4 THEN fc.bbox.items
    ELSE LET pts == walked(fc)
             minLng == MinOf({pts[i][1] : i \in 1..Len(pts)} \cup {Infinity})
             minLat == MinOf({pts[i][2] : i \in 1..Len(pts)} \cup {Infinity})
             maxLng == MaxOf({pts[i][1] : i \in 1..Len(pts)} \cup {-Infinity})
             maxLat == MaxOf({pts[i][2] : i \in 1..Len(pts)} \cup {-Infinity})
         IN  IF ~isFinite(minLng) \/ ~isFinite(minLat) \/ ~isFinite(maxLng) \/ ~isFinite(maxLat)
             THEN NoBox
             ELSE <<minLng, minLat, maxLng, maxLat>>

(* Map.tsx:149-166: update(), run by the effect for a new catchment: the map *)
(* is fitted to the bounds when there is a catchment and it has bounds       *)
MapUpdate ==
    /\ mapPending
    /\ fitted' = IF isochrone.kind = "null" \/ bboxFromGeoJSON(isochrone) = NoBox
                 THEN fitted
                 ELSE bboxFromGeoJSON(isochrone)
    /\ mapPending' = FALSE
    /\ UNCHANGED <<clientVars, calls, cache, creds, clock, matchVars>>

(* The map on its own: a catchment as it stands, of up to MaxFragments      *)
(* features, and the effect run for it                                       *)
MaxFragments == 2

Fragments ==
    { PolygonFeature(Square(0, 0, 4, 4)),
      PolygonFeature(Square(6, 0, 8, 2)),
      PointFeature(1, 5),
      PointFeature(Infinity, 0),
      Feature(Geometry("GeometryCollection", <<>>), NullProps),
      Feature(NoGeometry, NullProps) }

Bboxes ==
    { NoBbox,
      [isArray |-> TRUE, items |-> <<0, 0, 8, 5>>],
      [isArray |-> TRUE, items |-> <<4, 4, 0, 0>>],
      [isArray |-> TRUE, items |-> <<0, 0, 4>>] }

Document(type, box, features, geometry) ==
    [kind |-> "geojson", error |-> "", payload |-> NoPayload, type |-> type,
     bbox |-> box, features |-> features, geometry |-> geometry]

Documents ==
    { Document("FeatureCollection", b, fs, NoGeometry) :
        b \in Bboxes, fs \in UNION { [1..n -> Fragments] : n \in 0..MaxFragments } }
    \cup { Document("Feature", b, <<>>, f.geometry) : b \in Bboxes, f \in Fragments }
    \cup { Document(f.geometry.type, b, <<>>, f.geometry) : b \in Bboxes, f \in Fragments }

MapInit ==
    /\ destination = NoDestination
    /\ arriveBy = [hh |-> 8, mm |-> 30]
    /\ minutes = 240
    /\ mode = "public_transport"
    /\ isochrone \in Documents \cup {NoData}
    /\ loadingIso = FALSE
    /\ tRef = 0
    /\ abortRef = 0
    /\ timers = {}
    /\ renders = 0
    /\ rejections = {}
    /\ publishedBy = 0
    /\ communities = NoCollection
    /\ within = <<>>
    /\ matchPending = TRUE
    /\ probe = NoProbe
    /\ matchError = FALSE
    /\ fitted = NoBox
    /\ mapPending = TRUE
    /\ calls = <<>>
    /\ cache = [k \in {} |-> 0]
    /\ creds = TRUE
    /\ clock = 0

MapNext == MapUpdate

MapSpec == MapInit /\ [][MapNext]_vars

----------------------------------------------------------------------------
(* Properties *)

inputs == <<destination, arriveBy, minutes, mode>>

InFlight == { i \in Calls : calls[i].page = "pending" /\ ~calls[i].aborted }

(* C1. Debounce law: a change of an input with a destination set leaves exactly *)
(* one pending timer, due 350 ms later and holding the new values; a call is    *)
(* issued only by a due timer, it is the only call of that window (no timer is  *)
(* left pending) and its body carries the values of the latest input.           *)
C1_Debounce ==
    [][ /\ (inputs' # inputs /\ destination' # NoDestination) =>
              timers' = { [id |-> tRef', due |-> clock + DEBOUNCE_MS,
                           destination |-> destination',
                           arriveByISO |-> toArriveByISO(arriveBy'),
                           minutes |-> minutes', mode |-> mode'] }
        /\ (Len(calls') # Len(calls)) =>
              /\ Len(calls') = Len(calls) + 1
              /\ \E t \in timers : clock >= t.due
              /\ timers' = {}
              /\ inputs' = inputs
              /\ calls'[Len(calls')].body =
                     fetchBody(destination, toArriveByISO(arriveBy), minutes, mode)
      ]_vars

(* Two destination clicks fell in one window and one call went out, for the second *)
C1_Witness ==
    /\ renders = 2
    /\ destination = presets[2]
    /\ inputs = <<presets[2], [hh |-> 8, mm |-> 30], 240, "public_transport">>
    /\ timers = {}
    /\ Len(calls) = 1
    /\ calls[1].body.lat = Num(presets[2].lat)

(* C2. At most one call that has not been cancelled is in flight, and when the *)
(* timer callback issues a call every earlier call has already been aborted.   *)
C2_OneInFlight ==
    [][ /\ Cardinality(InFlight') <= 1
        /\ (Len(calls') # Len(calls)) =>
              \A i \in Calls : calls[i].aborted /\ calls[i].page # "pending"
      ]_vars

(* A second call was issued while the first one's response was still outstanding *)
C2_Witness ==
    /\ Len(calls) = 2
    /\ calls[1].page = "rejected"
    /\ calls[1].route = "awaiting"
    /\ InFlight = {2}

(* C3. Last request wins: a response is published only for the latest call,  *)
(* only while no newer input is waiting in the debounce window and only if   *)
(* its body is the one built from the current inputs; the published call     *)
(* only ever moves forward.                                                  *)
C3_LastRequestWins ==
    [][ (publishedBy' # publishedBy \/ isochrone' # isochrone) =>
            /\ publishedBy' = Len(calls)
            /\ publishedBy' > publishedBy
            /\ timers = {}
            /\ calls[publishedBy'].body =
                   fetchBody(destination, toArriveByISO(arriveBy), minutes, mode)
            /\ isochrone' = calls[publishedBy'].resp.data
      ]_vars

(* The superseded call's response was there to be read, and the newer one is published *)
C3_Witness ==
    /\ Len(calls) = 2
    /\ calls[1].aborted
    /\ calls[1].page = "rejected"
    /\ calls[1].route = "done"
    /\ calls[1].resp.status = 200
    /\ publishedBy = 2
    /\ calls[2].body # calls[1].body

(* C4. A failed attempt publishes nothing: the published catchment is never the *)
(* body of an error response.                                                  *)
C4_NoErrorPublished ==
    [][ \A i \in Calls :
          (calls[i].page = "pending" /\ calls'[i].page = "settled"
              /\ calls[i].resp.status # 200) => isochrone' = isochrone ]_vars

(* C5. TTL law: a lookup (validated body, credentials present) finding an entry *)
(* with expiry strictly later than the lookup time answers 200 with the cached  *)
(* value and makes no provider call; any other lookup goes to the provider.     *)
C5_TTL ==
    [][ \A i \in Calls :
          LET body == calls[i].body
              key == cacheKey(body)
          IN  (calls[i].route = "sent" /\ calls'[i].route # "sent"
                  /\ body.json /\ valid(body) /\ creds) =>
                IF key \in DOMAIN cache /\ cache[key].expiresAt > clock
                  THEN /\ calls'[i].route = "done"
                       /\ calls'[i].resp = Response(200, cache[key].geojson)
                       /\ calls'[i].sent = NoPayload
                  ELSE /\ calls'[i].route = "awaiting"
                       /\ calls'[i].sent = payload(body)
      ]_vars

(* A request was answered from the cache, some time after the entry was written *)
C5_Witness ==
    \E i \in Calls :
       /\ calls[i].route = "done"
       /\ calls[i].resp.status = 200
       /\ calls[i].sent = NoPayload
       /\ clock > 0

(* C6. An entry written after a successful provider call expires 10 minutes *)
(* after the time at which it is stored.                                    *)
C6_ExpiryFromStore ==
    [][ \A key \in DOMAIN cache' :
          (key \notin DOMAIN cache \/ cache'[key] # cache[key]) =>
              cache'[key].expiresAt = clock + TTL_MS ]_vars

(* C7. Failed fetches are never cached: the step in which a request ends in a  *)
(* crash on its body, a validation error, a missing-credentials error, a       *)
(* non-success provider response, an unparseable response or a rejected fetch  *)
(* leaves the cache as it was, and so does every earlier step of that request. *)
C7_FailuresNotCached ==
    [][ \A i \in Calls :
          LET body == calls[i].body
              failed == \/ ~body.json
                        \/ ~valid(body)
                        \/ ~creds
                        \/ calls'[i].upstream \in {"fail", "badjson", "reject"}
          IN  /\ (calls[i].route # "done" /\ calls'[i].route = "done" /\ failed) =>
                    cache' = cache
              /\ (calls[i].route = "sent" /\ calls'[i].route # "sent") => cache' = cache
      ]_vars

(* A request failed at the provider while the cache held an entry *)
C7_Witness ==
    /\ DOMAIN cache # {}
    /\ \E i \in Calls : calls[i].upstream \in {"fail", "badjson", "reject"}

(* C8. Once the page has aborted a call, the provider call made for it does *)
(* not complete and writes nothing to the cache.                            *)
C8_AbortReachesProvider ==
    [][ \A i \in Calls :
          (calls[i].aborted /\ calls[i].route = "awaiting") =>
              (calls'[i].route = "awaiting" /\ (cache' = cache \/ calls'[i] = calls[i])) ]_vars

(* C9. Aborting a superseded call raises nothing out of the timer callback. *)
C9_AbortIsSilent ==
    \A i \in Calls : calls[i].aborted => i \notin rejections

(* C10. The travel_time sent to the provider is an integer in 60..10800:    *)
(* minutes * 60 rounded to the nearest second when that is in the range, 60 *)
(* below it and 10800 above it.  s2 is twice minutes * 60.                  *)
C10_TravelTimeClamped ==
    \A i \in Calls :
        calls[i].sent # NoPayload =>
            LET s2 == 15 * calls[i].body.minutes.n
                tt == calls[i].sent.travel_time
            IN  /\ tt \in 60..10800
                /\ (s2 < 119) => tt = 60
                /\ (s2 >= 21601) => tt = 10800
                /\ (s2 >= 119 /\ s2 < 21601) => (2 * tt - 1 <= s2 /\ s2 < 2 * tt + 1)

(* A request whose minutes * 60 had to be rounded reached the provider *)
C10_Witness ==
    /\ calls[1].route = "done"
    /\ calls[1].upstream = "json"
    /\ calls[1].body.minutes = Num(9)
    /\ calls[1].sent.travel_time = 68

Abs(n) == IF n < 0 THEN -n ELSE n

(* Two coordinates with the same sign whose magnitudes lie strictly inside *)
(* one interval (k - 0.5, k + 0.5) * 1e-5                                  *)
SameCell(a, b) ==
    /\ (a < 0) = (b < 0)
    /\ \E k \in {Abs(a) \div 100, (Abs(a) \div 100) + 1} :
          /\ 100 * k - 50 < Abs(a) /\ Abs(a) < 100 * k + 50
          /\ 100 * k - 50 < Abs(b) /\ Abs(b) < 100 * k + 50

SameQuery(b1, b2) ==
    /\ b1.arriveByISO = b2.arriveByISO
    /\ b1.minutes = b2.minutes
    /\ b1.mode = b2.mode

(* C11 as stated. Two requests equal in arrival time, minutes and mode whose *)
(* latitudes and longitudes differ by less than 1e-5 get the same cache key.  *)
C11_NearbySameKey ==
    \A i, j \in Calls :
        (/\ calls[i].key # "" /\ calls[j].key # ""
         /\ SameQuery(calls[i].body, calls[j].body)
         /\ Abs(calls[i].body.lat.n - calls[j].body.lat.n) < 100
         /\ Abs(calls[i].body.lng.n - calls[j].body.lng.n) < 100)
        => calls[i].key = calls[j].key

(* C11 as amended. Two requests equal in arrival time, minutes and mode whose *)
(* latitudes and longitudes have the same nearest fifth decimal, neither being *)
(* halfway between two, get the same cache key, and a lookup for one of them that finds the other's entry before its   *)
(* expiry is answered from that entry without a provider call.                 *)
C11_SameCellSameKey ==
    [][ \A i, j \in Calls :
          LET bi == calls[i].body
              bj == calls[j].body
          IN  (/\ bi.json /\ bj.json /\ valid(bi) /\ valid(bj)
               /\ SameQuery(bi, bj)
               /\ SameCell(bi.lat.n, bj.lat.n)
               /\ SameCell(bi.lng.n, bj.lng.n))
              => /\ (calls'[i].key # "" /\ calls'[j].key # "") => calls'[i].key = calls'[j].key
                 /\ (/\ calls[i].upstream \in {"json", "text"}
                     /\ calls[j].route = "sent" /\ calls'[j].route # "sent"
                     /\ creds
                     /\ cache[calls[i].key].expiresAt > clock)
                    => /\ calls'[j].resp = Response(200, cache[calls[i].key].geojson)
                       /\ calls'[j].sent = NoPayload
      ]_vars

(* A request was answered from the entry written for a different coordinate *)
C11_Witness ==
    /\ calls[1].body.lat # calls[2].body.lat
    /\ calls[1].body.lng # calls[2].body.lng
    /\ calls[1].upstream = "json"
    /\ calls[2].route = "done"
    /\ calls[2].sent = NoPayload
    /\ calls[2].resp = Response(200, GeoJson(calls[1].sent))

(* C12. The request sent to the provider depends on the arrival time: two *)
(* requests that differ in it are sent different provider requests.       *)
C12_ArrivalReachesProvider ==
    \A i, j \in Calls :
        (/\ calls[i].sent # NoPayload /\ calls[j].sent # NoPayload
         /\ calls[i].body.arriveByISO # calls[j].body.arriveByISO)
        => calls[i].sent # calls[j].sent

(* The candidates and the catchment of the last match run *)
areas == communities.features

region == isoFeatureOf(combine(featureEach(isochrone)))

(* C13. The match run publishes the empty list, without raising and without *)
(* touching any candidate, whenever the catchment is null, has no fragments  *)
(* or combines to no feature, and whenever the candidate collection is null  *)
(* or has no features.                                                       *)
C13_EmptyInputs ==
    (/\ ~matchPending
     /\ \/ isochrone.kind = "null"
        \/ isochrone.features = <<>>
        \/ combine(isochrone.features) = <<>>
        \/ ~communities.loaded
        \/ areas = <<>>)
    => /\ within = <<>>
       /\ ~matchError
       /\ probe = NoProbe

(* Two closed rectangles <<minX, minY, maxX, maxY>> with integer corners have a point in common *)
Overlap(a, b) ==
    \E x \in a[1]..a[3], y \in a[2]..a[4] :
        /\ b[1] <= x /\ x <= b[3]
        /\ b[2] <= y /\ y <= b[4]

(* The candidates whose bounding box can be taken *)
Boxable == { i \in 1..Len(areas) : ~coordEachThrows(areas[i].geometry) }

(* C14. Prefilter ordering: a candidate whose bounding box has no point in *)
(* common with the catchment's is not in the result and neither its centroid *)
(* nor the point-in-polygon test is computed; the exact test runs only on    *)
(* candidates whose box was taken and overlaps.                              *)
C14_PrefilterFirst ==
    (~matchPending /\ probe # NoProbe) =>
        /\ \A i \in Boxable :
              ~Overlap(bbox(areas[i].geometry), bbox(region.geometry)) =>
                  i \notin probe.centroided /\ i \notin probe.matched
        /\ probe.centroided \subseteq probe.boxed \cap Boxable
        /\ probe.matched \subseteq probe.centroided

(* One candidate was dropped by its box, another went on to the exact test and matched *)
C14_Witness ==
    /\ ~matchPending
    /\ ~matchError
    /\ \E i \in probe.boxed \ probe.centroided :
          ~Overlap(bbox(areas[i].geometry), bbox(region.geometry))
    /\ probe.matched # {}

(* The boxes the last run compared: the catchment's and the boxed candidates' *)
Boxes ==
    { bbox(areas[i].geometry) : i \in probe.boxed \cap Boxable }
    \cup (IF probe = NoProbe THEN {} ELSE {bbox(region.geometry)})

(* C15. The overlap test has no false negatives: on boxes with min <= max on *)
(* both axes it is true exactly when the closed rectangles have a point in    *)
(* common, touching edges and corners included, and it is symmetric.          *)
C15_OverlapExact ==
    ~matchPending =>
        \A a \in Boxes, b \in Boxes :
            (a[1] <= a[3] /\ a[2] <= a[4] /\ b[1] <= b[3] /\ b[2] <= b[4]) =>
                /\ bboxIntersects(a, b) = Overlap(a, b)
                /\ bboxIntersects(a, b) = bboxIntersects(b, a)

(* A candidate whose box touches the catchment's box in one corner went on to the exact test *)
C15_Witness ==
    /\ ~matchPending
    /\ \E i \in probe.centroided :
          LET b == bbox(areas[i].geometry)
              r == bbox(region.geometry)
          IN  b[1] = r[3] /\ b[2] = r[4]

Names(list) == { list[k].name : k \in 1..Len(list) }

(* C16. Dedup law: the names of a published list are pairwise distinct, and *)
(* they are exactly the display names of the matched candidates, so that     *)
(* candidates sharing a display name have one entry between them.            *)
C16_Dedup ==
    (~matchPending /\ ~matchError) =>
        /\ \A k, l \in 1..Len(within) : within[k].name = within[l].name => k = l
        /\ Names(within) = { pickCommunityName(areas[i].properties) : i \in probe.matched }

(* Three matched candidates shared one display name and the list has one entry *)
C16_Witness ==
    /\ ~matchPending
    /\ ~matchError
    /\ Cardinality(probe.matched) = 3
    /\ Len(within) = 1

Orders(n) == { p \in [1..n -> 1..n] : \A i, j \in 1..n : p[i] = p[j] => i = j }

(* C17 as first stated: a published list ascends by name under localeCompare, *)
(* and the same candidates in any other order give the same list.             *)
C17_Sorted ==
    (~matchPending /\ communities.loaded) =>
        /\ \A k \in 1..(Len(within) - 1) :
              localeCompare(within[k].name, within[k + 1].name) <= 0
        /\ \A p \in Orders(Len(areas)) :
              LET m == match(isochrone,
                             [communities EXCEPT !.features = [i \in 1..Len(areas) |-> areas[p[i]]]],
                             mode)
              IN  /\ m.raised = matchError
                  /\ ~m.raised => m.hits = within

(* localeCompare tells any two different names of the list apart *)
ToldApart(list) ==
    \A i, j \in 1..Len(list) :
        localeCompare(list[i].name, list[j].name) = 0 => list[i].name = list[j].name

(* C17. A published list ascends by name under localeCompare whatever the     *)
(* order of the candidates.  The same candidates in any other order give a    *)
(* list of the same names and the same length, and the same list when         *)
(* localeCompare tells any two different names of it apart.                    *)
C17_SortedToldApart ==
    (~matchPending /\ communities.loaded) =>
        /\ \A k \in 1..(Len(within) - 1) :
              localeCompare(within[k].name, within[k + 1].name) <= 0
        /\ \A p \in Orders(Len(areas)) :
              LET m == match(isochrone,
                             [communities EXCEPT !.features = [i \in 1..Len(areas) |-> areas[p[i]]]],
                             mode)
              IN  /\ m.raised = matchError
                  /\ ~m.raised =>
                        /\ \A k \in 1..(Len(m.hits) - 1) :
                              localeCompare(m.hits[k].name, m.hits[k + 1].name) <= 0
                        /\ Names(m.hits) = Names(within)
                        /\ Len(m.hits) = Len(within)
                        /\ ToldApart(within) => m.hits = within

(* Candidates met in the order Unnamed area, B, a with acute were published *)
(* as a with acute, B, Unnamed area                                          *)
C17_Witness ==
    /\ ~matchPending
    /\ Len(areas) = 3
    /\ probe.matched = {1, 2, 3}
    /\ pickCommunityName(areas[1].properties) = UnnamedArea
    /\ pickCommunityName(areas[2].properties) = <<"B">>
    /\ pickCommunityName(areas[3].properties) = <<"U+00E1">>
    /\ ToldApart(within)
    /\ within = <<Hit(<<"U+00E1">>, mode), Hit(<<"B">>, mode), Hit(UnnamedArea, mode)>>

KeyOrder ==
    <<"GSA_NAME", "COMMUNITY", "COMMUNITY_NAME", "community_name",
      "NAME", "name", "label", "LABEL">>

(* The characters of str from its first to its last one that is not white *)
(* space                                                                    *)
Stripped(str) ==
    LET solid == { i \in 1..Len(str) : str[i] \notin WhiteSpace }
    IN  IF solid = {} THEN <<>> ELSE SubSeq(str, MinOf(solid), MaxOf(solid))

(* The display name as the statement has it *)
DisplayName(props) ==
    LET qualifying ==
            { k \in 1..Len(KeyOrder) :
                /\ props.kind = "object"
                /\ KeyOrder[k] \in DOMAIN props.fields
                /\ props.fields[KeyOrder[k]].t = "string"
                /\ Stripped(props.fields[KeyOrder[k]].c) # <<>> }
    IN  IF qualifying = {} THEN UnnamedArea
        ELSE Stripped(props.fields[KeyOrder[MinOf(qualifying)]].c)

(* C18. Display-name resolution: the name of a candidate is the trimmed value *)
(* of the first key, in the order GSA_NAME, COMMUNITY, COMMUNITY_NAME,         *)
(* community_name, NAME, name, label, LABEL, that holds a string with a        *)
(* non-blank character, and "Unnamed area" when there is no such key or no     *)
(* attribute object; a published list carries these names.                     *)
C18_DisplayName ==
    /\ \A i \in 1..Len(areas) :
          pickCommunityName(areas[i].properties) = DisplayName(areas[i].properties)
    /\ (~matchPending /\ ~matchError) =>
          Names(within) = { DisplayName(areas[i].properties) : i \in probe.matched }

(* Matched candidates were named by a trimmed value, by the default, and by *)
(* the key that follows a number and a blank string and precedes another     *)
C18_Witness ==
    /\ ~matchPending
    /\ ~matchError
    /\ Cardinality(probe.matched) = 3
    /\ Names(within) = {<<"a", "U+0301">>, <<"B">>, UnnamedArea}
    /\ \E i \in probe.matched :
          /\ Get(areas[i].properties, "name") = StrVal(<<"\t", "a", "U+0301", " ", "\n">>)
    /\ \E i \in probe.matched :
          /\ Get(areas[i].properties, "GSA_NAME") = NumVal
          /\ Get(areas[i].properties, "COMMUNITY") = StrVal(<<" ", "\r", "\n">>)
          /\ Get(areas[i].properties, "COMMUNITY_NAME") = StrVal(<<"B">>)
          /\ Get(areas[i].properties, "NAME") = StrVal(<<"a">>)

(* C19. The match run never raises: whatever the catchment and the candidates, *)
(* it completes and publishes a list.                                          *)
C19_NeverRaises == ~matchError

(* C20. With a credential absent a validated request is answered 500 with a *)
(* JSON error; it makes no provider call, is served nothing from the cache   *)
(* and leaves the cache as it was, whether or not an entry for it is fresh.  *)
C20_MissingCredentials ==
    [][ \A i \in Calls :
          LET body == calls[i].body
          IN  (/\ calls[i].route = "sent" /\ calls'[i].route # "sent"
               /\ body.json /\ valid(body) /\ ~creds)
              => /\ calls'[i].route = "done"
                 /\ calls'[i].resp.status = 500
                 /\ calls'[i].resp.data.kind = "error"
                 /\ calls'[i].sent = NoPayload
                 /\ calls'[i].upstream = ""
                 /\ cache' = cache
      ]_vars

(* A request was refused for missing credentials while a fresh entry for its *)
(* fingerprint was in the cache                                              *)
C20_Witness ==
    \E i \in Calls :
        /\ calls[i].route = "done"
        /\ calls[i].resp.status = 500
        /\ calls[i].sent = NoPayload
        /\ ~creds
        /\ cacheKey(calls[i].body) \in DOMAIN cache
        /\ cache[cacheKey(calls[i].body)].expiresAt > clock

(* Every coordinate pair of the published catchment *)
Pairs ==
    LET all(g) == IF g.hasCoords THEN positions(g.coordinates, 3) ELSE <<>>
        pts == Flatten([i \in 1..Len(isochrone.features) |-> all(isochrone.features[i].geometry)])
               \o all(isochrone.geometry)
    IN  { pts[i] : i \in 1..Len(pts) }

(* C21. Once the map has handled a catchment, it was fitted to nothing or to *)
(* a box of four finite numbers with min <= max on both axes that encloses   *)
(* every coordinate pair of the catchment; and to nothing when the catchment *)
(* has no finite coordinate pair.                                            *)
C21_BoxValid ==
    (~mapPending /\ isochrone.kind # "null") =>
        /\ fitted # NoBox =>
              /\ Len(fitted) = 4
              /\ \A k \in 1..4 : isFinite(fitted[k])
              /\ fitted[1] <= fitted[3] /\ fitted[2] <= fitted[4]
              /\ \A pt \in Pairs : /\ fitted[1] <= pt[1] /\ pt[1] <= fitted[3]
                                    /\ fitted[2] <= pt[2] /\ pt[2] <= fitted[4]
        /\ (\A pt \in Pairs : ~(isFinite(pt[1]) /\ isFinite(pt[2]))) => fitted = NoBox

(* C22. In every reachable state every entry of the published match list  *)
(* carries the label of the travel mode that was sent in the request whose *)
(* response is the published catchment.                                    *)
C22_LabelAgrees ==
    \A k \in 1..Len(within) :
        /\ publishedBy # 0
        /\ within[k].mode = modeLabel(calls[publishedBy].body.mode.s)

(* Nothing is under way and the published catchment answers the request *)
(* built from the inputs as they stand                                    *)
Settled ==
    /\ timers = {}
    /\ InFlight = {}
    /\ ~loadingIso
    /\ publishedBy # 0
    /\ calls[publishedBy].body = fetchBody(destination, toArriveByISO(arriveBy), minutes, mode)
    /\ calls[publishedBy].route = "done"
    /\ isochrone = calls[publishedBy].resp.data

(* C23. If from some point on no input changes and a destination is set,  *)
(* then from some point on no timer is pending, no call is in flight, the *)
(* loading flag is off and the published catchment is the response to the *)
(* request built from the final inputs.                                    *)
C23_Settles ==
    (<>[][FALSE]_<<inputs, renders>> /\ <>(destination # NoDestination)) => <>[]Settled

C23_Witness ==
    /\ Settled
    /\ renders >= 2
    /\ Len(calls) >= 2
    /\ publishedBy = Len(calls)

(* C24. Every value in the cache, and so every value served from it, is a   *)
(* parsed JSON body of a provider response with success status.             *)
C24_OnlyParsedJsonCached ==
    \A key \in DOMAIN cache : cache[key].geojson.kind = "geojson"

(* C25. For one fingerprint at most one provider call is under way: a request *)
(* does not go to the provider while another request with its fingerprint is   *)
(* awaiting the provider, and an entry that is still fresh is not overwritten. *)
C25_OneProviderCall ==
    [][ /\ \A j \in Calls :
              (calls[j].route = "sent" /\ calls'[j].route = "awaiting") =>
                  ~\E i \in Calls \ {j} :
                       calls[i].route = "awaiting" /\ calls[i].key = calls'[j].key
        /\ \A key \in DOMAIN cache :
              cache[key].expiresAt > clock => cache'[key] = cache[key]
      ]_vars

(* C26. Two validated requests that the route has looked up under the same *)
(* key have the same rounded latitude and longitude, the same arrival       *)
(* string, the same minutes and the same mode.                              *)
C26_KeyInjective ==
    \A i, j \in Calls :
        LET bi == calls[i].body
            bj == calls[j].body
        IN  (/\ calls[i].route # "sent" /\ calls[j].route # "sent"
             /\ bi.json /\ bj.json /\ valid(bi) /\ valid(bj)
             /\ cacheKey(bi) = cacheKey(bj))
            => /\ toFixed5(bi.lat.n) = toFixed5(bj.lat.n)
               /\ toFixed5(bi.lng.n) = toFixed5(bj.lng.n)
               /\ SameQuery(bi, bj)

====
